---- MODULE Spec2Model ----
(***************************************************************************)
(* Places Search (src/main.py): the search handler of the page, the        *)
(* request helper search_places, the row normaliser process_places and     *)
(* the ranking sort that follows it.                                       *)
(***************************************************************************)
EXTENDS Integers, Sequences, FiniteSets, Bags, TLC

VARIABLES
    pc,                \* "idle": the script run is over; "awaiting": requests.post is blocked on the network;
                       \* "normalize"/"normalized": the normaliser run on its own
    search_query,      \* the text of the Search Query widget
    api_key,           \* the text of the Google Places API Key widget
    posts,             \* number of requests.post calls made so far
    searches,          \* number of Search clicks that passed the caller's validation
    clicks,            \* number of Search clicks
    request,           \* the request requests.post sent in this run, if any
    response,          \* the response requests.post returned in this run, if any
    result,            \* first component of search_places' return value
    error,             \* second component of search_places' return value
    places,            \* result['places'] of the current run
    processed_places,  \* the rows the run rendered
    display            \* what the run showed last: [level, what]

vars == <<pc, search_query, api_key, posts, searches, clicks, request, response,
          result, error, places, processed_places, display>>

\* Longest 'places' list a response carries.
MaxPlaces == 3
\* Number of Search clicks explored.
MaxSearches == 2

-----------------------------------------------------------------------------
(* JSON values as Python sees them after response.json(): a tag and a text. *)
(* A number keeps its decimal text; "absent" is a key the dict lacks.       *)

AbsentV == [t |-> "absent", v |-> ""]
NullV == [t |-> "null", v |-> ""]
StrV(s) == [t |-> "str", v |-> s]
NumV(s) == [t |-> "num", v |-> s]

\* displayName: absent, null, a string, or an object whose 'text' is a value.
NameAbsent == [t |-> "absent", v |-> "", text |-> AbsentV]
NameNull == [t |-> "null", v |-> "", text |-> AbsentV]
NameStr(s) == [t |-> "str", v |-> s, text |-> AbsentV]
NameObj(x) == [t |-> "obj", v |-> "", text |-> x]

\* Python truthiness of a value that is present.
Truthy(x) ==
    CASE x.t = "str" -> x.v # ""
      [] x.t = "num" -> x.v # "0"
      [] OTHER -> FALSE

\* Mutant: place.get(key) without the default, None for a missing key.
DictGetNoDefault(x, default) == IF x.t = "absent" THEN NullV ELSE x

\* place.get(key, default) on a dict whose key holds x.
DictGet(x, default) == IF x.t = "absent" THEN default ELSE x

\* Mutant: the test for the key alone, without the value's truth.
has_website_key_only(place) == place.websiteUri.t # "absent"

\* 'websiteUri' in place and place['websiteUri']
has_website(place) ==
    /\ place.websiteUri.t # "absent"
    /\ Truthy(place.websiteUri)

\* place.get('displayName', {}).get('text', 'Unknown') raises AttributeError
\* when the value under 'displayName' has no .get (None, a string).
NameRaises(place) == place.displayName.t \in {"null", "str"}

NameOf(place) ==
    IF place.displayName.t = "absent"
    THEN StrV("Unknown")
    ELSE DictGet(place.displayName.text, StrV("Unknown"))

\* The dict literal of one loop iteration.
processed_place(place) ==
    [Name |-> NameOf(place),
     Address |-> DictGet(place.formattedAddress, StrV("N/A")),
     Price_Level |-> DictGet(place.priceLevel, StrV("N/A")),
     Has_Website |-> IF has_website(place) THEN "Yes" ELSE "No",
     Website |-> IF has_website(place)
                 THEN DictGet(place.websiteUri, StrV("N/A"))
                 ELSE StrV("N/A")]

\* Mutant: the append dedented out of the loop, only the last row is kept.
process_places_last_only(ps) ==
    IF ps = <<>>
    THEN [raised |-> FALSE, rows |-> <<>>]
    ELSE IF \E i \in 1..Len(ps) : NameRaises(ps[i])
    THEN [raised |-> TRUE, rows |-> <<>>]
    ELSE [raised |-> FALSE, rows |-> <<processed_place(ps[Len(ps)])>>]

\* process_places: [raised, rows]; an exception in any iteration leaves the
\* function without a return value.
RECURSIVE process_places(_)
process_places(ps) ==
    IF ps = <<>>
    THEN [raised |-> FALSE, rows |-> <<>>]
    ELSE LET head == process_places(SubSeq(ps, 1, Len(ps) - 1))
             place == ps[Len(ps)]
         IN  IF head.raised \/ NameRaises(place)
             THEN [raised |-> TRUE, rows |-> <<>>]
             ELSE [raised |-> FALSE, rows |-> Append(head.rows, processed_place(place))]

-----------------------------------------------------------------------------
(* processed_places.sort(key=lambda x: x['Has Website'] == 'Yes')           *)

SortKey(x) == x.Has_Website = "Yes"

\* Mutant: <= in place of <, which moves a row before its equals.
KeyLessOrEqual(a, b) == a => b

\* False < True, the only comparison list.sort makes.
KeyLess(a, b) == ~a /\ b

\* Binary insertion of x into a sorted run: x goes before the first element
\* whose key is greater than x's, after every element that is not.
RECURSIVE InsertPos(_, _, _)
InsertPos(run, x, i) ==
    IF i > Len(run) THEN i
    ELSE IF KeyLess(SortKey(x), SortKey(run[i])) THEN i
    ELSE InsertPos(run, x, i + 1)

Insert(run, x) ==
    LET i == InsertPos(run, x, 1)
    IN  SubSeq(run, 1, i - 1) \o <<x>> \o SubSeq(run, i, Len(run))

\* Mutant: the sort left out.
ListSortSkipped(rows) == rows

\* The list after the sort: what a stable sort by SortKey leaves, built as
\* list.sort builds a short list, by insertion from the left.
RECURSIVE ListSort(_)
ListSort(rows) ==
    IF rows = <<>> THEN <<>>
    ELSE Insert(ListSort(SubSeq(rows, 1, Len(rows) - 1)), rows[Len(rows)])

-----------------------------------------------------------------------------
(* search_places                                                            *)

HTTP_OK == 200

Digit(d) ==
    CASE d = 0 -> "0" [] d = 1 -> "1" [] d = 2 -> "2" [] d = 3 -> "3"
      [] d = 4 -> "4" [] d = 5 -> "5" [] d = 6 -> "6" [] d = 7 -> "7"
      [] d = 8 -> "8" [] d = 9 -> "9"

\* The decimal digits f"{response.status_code}" writes, most significant first.
RECURSIVE IntToStr(_)
IntToStr(n) == IF n < 10 THEN <<Digit(n)>> ELSE Append(IntToStr(n \div 10), Digit(n % 10))

\* A Python str or None; a str is kept as the pieces the f-string joins.
NoneError == [none |-> TRUE, msg |-> <<>>]
ErrorMsg(pieces) == [none |-> FALSE, msg |-> pieces]

\* A parsed JSON object or None.
NoneResult == [none |-> TRUE, hasPlaces |-> FALSE, otherKeys |-> FALSE, places |-> <<>>]
JsonObject(hasPlaces, otherKeys, ps) ==
    [none |-> FALSE, hasPlaces |-> hasPlaces, otherKeys |-> otherKeys, places |-> ps]

\* Mutant: the success branch falls through without its return.
search_places_no_return(resp) ==
    IF resp.status_code = 200
    THEN [result |-> NoneResult, error |-> NoneError]
    ELSE [result |-> NoneResult,
          error |-> ErrorMsg(<<"Request failed with status code: ">>
                             \o IntToStr(resp.status_code)
                             \o <<"\nError: ", resp.text>>)]

\* Mutant: the message without the response body.
search_places_no_body(resp) ==
    IF resp.status_code = 200
    THEN [result |-> resp.json, error |-> NoneError]
    ELSE [result |-> NoneResult,
          error |-> ErrorMsg(<<"Request failed with status code: ">>
                             \o IntToStr(resp.status_code))]

\* The return value for a response whose body response.json() can parse, or
\* whose status spares the parse.
search_places(resp) ==
    IF resp.status_code = HTTP_OK
    THEN [result |-> resp.json, error |-> NoneError]
    ELSE [result |-> NoneResult,
          error |-> ErrorMsg(<<"Request failed with status code: ">>
                             \o IntToStr(resp.status_code)
                             \o <<"\nError: ", resp.text>>)]

\* The return value of the except branch.
search_places_except(e) ==
    [result |-> NoneResult, error |-> ErrorMsg(<<"An error occurred: ", e>>)]

-----------------------------------------------------------------------------
(* Main search logic                                                        *)

\* if error: a str is true when it has a character.
ErrorTruthy(e) == ~e.none /\ \E i \in 1..Len(e.msg) : e.msg[i] # ""

\* result and 'places' in result: None and {} are false.
ResultHasPlaces(r) == ~r.none /\ (r.hasPlaces \/ r.otherKeys) /\ r.hasPlaces

Shown(level, what) == [level |-> level, what |-> what]

\* Lines 139-198: what the run shows for a returned (result, error).
MainLogic(r, e) ==
    IF ErrorTruthy(e)
    THEN [display |-> Shown("error", "search_error"),
          places |-> <<>>, processed_places |-> <<>>]
    ELSE IF ResultHasPlaces(r)
    THEN IF r.places # <<>>
         THEN LET pp == process_places(r.places)
              IN  IF pp.raised
                  THEN [display |-> Shown("exception", "AttributeError"),
                        places |-> r.places, processed_places |-> <<>>]
                  ELSE [display |-> Shown("success", "results"),
                        places |-> r.places, processed_places |-> ListSort(pp.rows)]
         ELSE [display |-> Shown("warning", "no_results_found"),
               places |-> <<>>, processed_places |-> <<>>]
    ELSE [display |-> Shown("warning", "no_results_returned"),
          places |-> <<>>, processed_places |-> <<>>]

-----------------------------------------------------------------------------
(* Inputs                                                                   *)

Queries == {"", "coffee shops in houston"}
ApiKeys == {"", "YOUR_API_KEY"}

CafeA == [displayName |-> NameObj(StrV("Cafe A")), formattedAddress |-> StrV("1 Main St"),
          priceLevel |-> AbsentV, websiteUri |-> AbsentV]
CafeB == [displayName |-> NameObj(StrV("Cafe B")), formattedAddress |-> StrV("2 Main St"),
          priceLevel |-> StrV("PRICE_LEVEL_MODERATE"), websiteUri |-> StrV("http://x.com")]
CafeC == [displayName |-> NameObj(StrV("Cafe C")), formattedAddress |-> AbsentV,
          priceLevel |-> AbsentV, websiteUri |-> StrV("http://y.org")]
Nameless == [displayName |-> NameAbsent, formattedAddress |-> StrV("3 Main St"),
             priceLevel |-> AbsentV, websiteUri |-> StrV("")]
NullName == [displayName |-> NameNull, formattedAddress |-> StrV("4 Main St"),
             priceLevel |-> AbsentV, websiteUri |-> AbsentV]
Odd == [displayName |-> NameObj(NullV), formattedAddress |-> NullV,
        priceLevel |-> NumV("2"), websiteUri |-> NumV("7")]

\* The places a response of the application model may list.
SamplePlaces == {CafeA, CafeB, CafeC, Nameless, NullName, Odd}

RECURSIVE SeqsUpTo(_, _)
SeqsUpTo(S, n) ==
    IF n = 0 THEN {<<>>}
    ELSE LET shorter == SeqsUpTo(S, n - 1)
         IN  shorter \cup {Append(s, x) : s \in {t \in shorter : Len(t) = n - 1}, x \in S}

PlacesBody(ps) == [text |-> "{\"places\": [...]}", valid |-> TRUE, json |-> JsonObject(TRUE, FALSE, ps)]
EmptyObjectBody == [text |-> "{}", valid |-> TRUE, json |-> JsonObject(FALSE, FALSE, <<>>)]
OtherKeysBody == [text |-> "{\"nextPageToken\": \"t\"}", valid |-> TRUE, json |-> JsonObject(FALSE, TRUE, <<>>)]
TextBody(s) == [text |-> s, valid |-> FALSE, json |-> NoneResult]

SmallBodies == {EmptyObjectBody, OtherKeysBody, TextBody("forbidden"), TextBody(""),
                PlacesBody(<<CafeA>>)}
Bodies == SmallBodies \cup {PlacesBody(ps) : ps \in SeqsUpTo(SamplePlaces, MaxPlaces)}

Response(status, body) ==
    [status_code |-> status, text |-> body.text, valid |-> body.valid, json |-> body.json]

Responses ==
    {Response(200, b) : b \in Bodies}
        \cup {Response(s, b) : s \in {201, 204, 403, 500}, b \in SmallBodies}

Faults == {"timed out", ""}

NoResponse == [status_code |-> 0, text |-> "", valid |-> FALSE, json |-> NoneResult]
NoRequest == [sent |-> FALSE, textQuery |-> "", key |-> ""]
\* json=data and the X-Goog-Api-Key header of requests.post.
Request(query, key) == [sent |-> TRUE, textQuery |-> query, key |-> key]

-----------------------------------------------------------------------------
(* The page                                                                 *)

Init ==
    /\ pc = "idle"
    /\ search_query = ""
    /\ api_key = "YOUR_API_KEY"
    /\ posts = 0
    /\ searches = 0
    /\ clicks = 0
    /\ request = NoRequest
    /\ response = NoResponse
    /\ result = NoneResult
    /\ error = NoneError
    /\ places = <<>>
    /\ processed_places = <<>>
    /\ display = Shown("info", "instructions")

\* A rerun of the script that the Search button did not cause (a widget was
\* edited): search_clicked is False and the instructions are shown.
Rerun(q, k) ==
    /\ pc = "idle"
    /\ search_query' = q
    /\ api_key' = k
    /\ request' = NoRequest
    /\ response' = NoResponse
    /\ result' = NoneResult
    /\ error' = NoneError
    /\ places' = <<>>
    /\ processed_places' = <<>>
    /\ display' = Shown("info", "instructions")
    /\ UNCHANGED <<pc, posts, searches, clicks>>

\* Mutant: the click goes to search_places without the two checks.
ClickSearchUnvalidated ==
    /\ pc = "idle"
    /\ clicks < MaxSearches
    /\ clicks' = clicks + 1
    /\ response' = NoResponse
    /\ result' = NoneResult
    /\ error' = NoneError
    /\ places' = <<>>
    /\ processed_places' = <<>>
    /\ display' = Shown("spinner", "searching")
    /\ searches' = searches + 1
    /\ posts' = posts + 1
    /\ request' = Request(search_query, api_key)
    /\ pc' = "awaiting"
    /\ UNCHANGED <<search_query, api_key>>

\* search_clicked: the caller's validation, then search_places up to the
\* blocking requests.post.
ClickSearch ==
    /\ pc = "idle"
    /\ clicks < MaxSearches
    /\ clicks' = clicks + 1
    /\ response' = NoResponse
    /\ result' = NoneResult
    /\ error' = NoneError
    /\ places' = <<>>
    /\ processed_places' = <<>>
    /\ IF search_query = ""
       THEN /\ display' = Shown("error", "enter_query")
            /\ request' = NoRequest
            /\ UNCHANGED <<pc, posts, searches>>
       ELSE IF api_key = ""
       THEN /\ display' = Shown("error", "provide_api_key")
            /\ request' = NoRequest
            /\ UNCHANGED <<pc, posts, searches>>
       ELSE /\ display' = Shown("spinner", "searching")
            /\ searches' = searches + 1
            /\ posts' = posts + 1
            /\ request' = Request(search_query, api_key)
            /\ pc' = "awaiting"
    /\ UNCHANGED <<search_query, api_key>>

\* The run from the return of search_places to its end.
Finish(ret) ==
    LET out == MainLogic(ret.result, ret.error)
    IN  /\ pc' = "idle"
        /\ result' = ret.result
        /\ error' = ret.error
        /\ places' = out.places
        /\ processed_places' = out.processed_places
        /\ display' = out.display
        /\ UNCHANGED <<search_query, api_key, posts, searches, clicks, request>>

\* requests.post returns a response that search_places can turn into a
\* return value.
ReceiveResponse(r) ==
    /\ pc = "awaiting"
    /\ r.status_code # HTTP_OK \/ r.valid
    /\ response' = r
    /\ Finish(search_places(r))

\* Status 200 with a body that is not JSON: response.json() raises. The
\* exception is a RequestException in requests 2.27 and later (caught, line
\* 67) and a plain ValueError before (not caught, the run ends in it).
ReceiveUnparsable(r) ==
    /\ pc = "awaiting"
    /\ r.status_code = HTTP_OK
    /\ ~r.valid
    /\ response' = r
    /\ \/ Finish(search_places_except("Expecting value"))
       \/ /\ pc' = "idle"
          /\ display' = Shown("exception", "JSONDecodeError")
          /\ UNCHANGED <<search_query, api_key, posts, searches, clicks, request,
                         result, error, places, processed_places>>

\* Mutant: the except branch posts again instead of returning.
TransportFaultRetried(e) ==
    /\ pc = "awaiting"
    /\ posts <= MaxSearches
    /\ posts' = posts + 1
    /\ UNCHANGED <<pc, search_query, api_key, searches, clicks, request, response,
                   result, error, places, processed_places, display>>

\* requests.post raises a RequestException.
TransportFault(e) ==
    /\ pc = "awaiting"
    /\ response' = NoResponse
    /\ Finish(search_places_except(e))

Next ==
    \/ \E q \in Queries, k \in ApiKeys : Rerun(q, k)
    \/ ClickSearch
    \/ \E r \in Responses : ReceiveResponse(r)
    \/ \E r \in Responses : ReceiveUnparsable(r)
    \/ \E e \in Faults : TransportFault(e)

Spec == Init /\ [][Next]_vars

-----------------------------------------------------------------------------
(* The normaliser and the sort on their own, over every shape of one place. *)

NameValues ==
    {NameAbsent, NameNull, NameStr("Cafe A")}
        \cup {NameObj(x) : x \in {AbsentV, NullV, StrV("Cafe A"), StrV(""), NumV("7")}}
AddressValues == {AbsentV, NullV, StrV(""), StrV("1 Main St"), NumV("7")}
PriceValues == {AbsentV, NullV, StrV("PRICE_LEVEL_MODERATE"), NumV("2")}
WebsiteValues == {AbsentV, NullV, StrV(""), StrV("http://x.com"), NumV("0"), NumV("7")}

AllPlaces ==
    [displayName : NameValues, formattedAddress : AddressValues,
     priceLevel : PriceValues, websiteUri : WebsiteValues]

InitNormalize ==
    /\ pc = "normalize"
    /\ search_query = "coffee shops in houston"
    /\ api_key = "YOUR_API_KEY"
    /\ posts = 0
    /\ searches = 0
    /\ clicks = 0
    /\ request = NoRequest
    /\ response = NoResponse
    /\ result \in {JsonObject(TRUE, FALSE, <<p>>) : p \in AllPlaces}
    /\ error = NoneError
    /\ places = <<>>
    /\ processed_places = <<>>
    /\ display = Shown("spinner", "searching")

\* Lines 139-151 on a result that lists one place.
NormalizeAndRank ==
    /\ pc = "normalize"
    /\ LET out == MainLogic(result, error)
       IN  /\ pc' = "normalized"
           /\ places' = out.places
           /\ processed_places' = out.processed_places
           /\ display' = out.display
    /\ UNCHANGED <<search_query, api_key, posts, searches, clicks, request, response,
                   result, error>>

NextNormalize == NormalizeAndRank

SpecNormalize == InitNormalize /\ [][NextNormalize]_vars

-----------------------------------------------------------------------------
(* Properties                                                               *)

IsYes(row) == row.Has_Website = "Yes"
IsNo(row) == row.Has_Website = "No"

\* The per-record normalisations of a list of places, in input order.
RowsOf(ps) == [i \in 1..Len(ps) |-> processed_place(ps[i])]

SeqToBag(sq) ==
    [x \in {sq[i] : i \in 1..Len(sq)} |-> Cardinality({i \in 1..Len(sq) : sq[i] = x})]

Rendered == pc = "idle" /\ display.what = "results"

\* C1: in the rows of a successful search, after process_places and the sort,
\* no row with Has Website = Yes stands before a row with Has Website = No.
C1_NoBeforeYes ==
    Rendered =>
        \A i, j \in 1..Len(processed_places) :
            i < j => ~(IsYes(processed_places[i]) /\ IsNo(processed_places[j]))

\* C1 witness: a response that lists a place with a website before one without.
C1_Witness ==
    /\ Rendered
    /\ \E i, j \in 1..Len(places) :
          i < j /\ has_website(places[i]) /\ ~has_website(places[j])

\* C2: the sort is stable: the rows without a website keep the order their
\* places had in the input, and so do the rows with one.
C2_Stable ==
    Rendered =>
        /\ SelectSeq(processed_places, IsNo) = SelectSeq(RowsOf(places), IsNo)
        /\ SelectSeq(processed_places, IsYes) = SelectSeq(RowsOf(places), IsYes)

\* C2 witness: two places of one class with different rows, and between them
\* a place of the other class that the sort has to move across one of them.
C2_Witness ==
    /\ Rendered
    /\ \E i, j, k \in 1..Len(places) :
          /\ i < j /\ j < k
          /\ has_website(places[i]) /\ ~has_website(places[j]) /\ has_website(places[k])
          /\ processed_place(places[i]) # processed_place(places[k])

\* C3: the output has one row per input record: the same length as the input,
\* and the same rows with the same multiplicities as the per-record
\* normalisations.
C3_OneRowPerRecord ==
    Rendered =>
        /\ Len(processed_places) = Len(places)
        /\ SeqToBag(processed_places) = SeqToBag(RowsOf(places))

\* C3 witness: a response that lists the same record twice, and another one.
C3_Witness ==
    /\ Rendered
    /\ Len(places) >= 3
    /\ \E i, j \in 1..Len(places) : i # j /\ places[i] = places[j]
    /\ \E i, j \in 1..Len(places) : places[i] # places[j]

InSuccessRange(status) == status >= 200 /\ status <= 299

ZeroResult(r) == ~r.none /\ (~r.hasPlaces \/ r.places = <<>>)

\* C7 as stated: a parsable response with any status of the success range
\* makes search_places return the parsed body and no error.
C7_Original ==
    (pc = "idle" /\ InSuccessRange(response.status_code) /\ response.valid) =>
        /\ error.none
        /\ result = response.json

\* C7 amended: a response with status exactly 200 whose body parses makes
\* search_places return the parsed body and no error; when that body lacks
\* 'places' or lists none, the run shows a warning, no error and no rows.
C7_Ok200 ==
    (pc = "idle" /\ response.status_code = 200 /\ response.valid) =>
        /\ error.none
        /\ result = response.json
        /\ display.level # "error"
        /\ ZeroResult(result) => display.level = "warning" /\ processed_places = <<>>

\* C7 witness: a 200 response whose body has no 'places' key.
C7_Witness ==
    /\ pc = "idle"
    /\ response.status_code = 200
    /\ ~result.none /\ ~result.hasPlaces
    /\ display = Shown("warning", "no_results_returned")

\* sub occurs in sq as a run of consecutive pieces.
Contains(sq, sub) ==
    \E i \in 1..(Len(sq) - Len(sub) + 1) : SubSeq(sq, i, i + Len(sub) - 1) = sub

NonSuccess(status) == status # 0 /\ ~InSuccessRange(status)

\* C8: a response with a non-success status makes search_places return no
\* result and an error that carries the status code and the raw body; the
\* caller shows the error and renders no rows.
C8_RequestFailed ==
    (pc = "idle" /\ NonSuccess(response.status_code)) =>
        /\ result.none
        /\ ~error.none
        /\ Contains(error.msg, IntToStr(response.status_code))
        /\ Contains(error.msg, <<response.text>>)
        /\ display = Shown("error", "search_error")
        /\ places = <<>>
        /\ processed_places = <<>>

\* C8 witness: status 403 with body "forbidden".
C8_Witness ==
    /\ pc = "idle"
    /\ response.status_code = 403
    /\ response.text = "forbidden"
    /\ Contains(error.msg, <<"4", "0", "3">>)

\* C9: a click with an empty query or an empty key is rejected with an input
\* error, sends nothing and yields no search error; whatever is sent carries a
\* non-empty query and a non-empty key.
C9_ValidatedBeforeSend ==
    [][/\ (clicks' = clicks + 1 /\ (search_query = "" \/ api_key = "")) =>
            /\ posts' = posts
            /\ pc' = "idle"
            /\ ~request'.sent
            /\ error'.none
            /\ display' \in {Shown("error", "enter_query"), Shown("error", "provide_api_key")}
       /\ posts' # posts => request'.sent /\ request'.textQuery # "" /\ request'.key # ""]_vars

\* C9 witness: a click with an empty key after a search that was sent.
C9_Witness ==
    /\ display = Shown("error", "provide_api_key")
    /\ clicks = 2
    /\ posts = 1

\* C10: every click that passes validation posts exactly once; nothing else
\* posts, whatever the outcome of the request.
C10_OnePostPerSearch ==
    /\ [](posts = searches)
    /\ [][posts' # posts =>
            /\ posts' = posts + 1
            /\ clicks' = clicks + 1
            /\ search_query # "" /\ api_key # ""]_vars

\* C10 witness: a second search, triggered by the user after a failed one,
\* fails on a transport fault.
C10_Witness ==
    /\ pc = "idle"
    /\ posts = 2
    /\ searches = 2
    /\ ~error.none
    /\ Contains(error.msg, <<"An error occurred: ">>)

WebsiteTyped(place) == place.websiteUri.t \in {"absent", "null", "str"}

Normalized == pc = "normalized" /\ display.what = "results"

\* C4: for a websiteUri that is missing, null or a string, the row has
\* Has Website = Yes exactly when websiteUri is a non-empty string; then
\* Website is that URI, and otherwise Has Website = No and Website = N/A.
C4_WebsitePresence ==
    (Normalized /\ WebsiteTyped(places[1])) =>
        LET uri == places[1].websiteUri
            row == processed_places[1]
            present == uri.t = "str" /\ uri.v # ""
        IN  /\ row.Has_Website \in {"Yes", "No"}
            /\ row.Has_Website = "Yes" <=> present
            /\ present => row.Website = uri
            /\ ~present => row.Website = StrV("N/A")

\* C4 witness: the empty string as websiteUri, normalised.
C4_Witness ==
    /\ Normalized
    /\ places[1].websiteUri = StrV("")
    /\ processed_places[1].Has_Website = "No"

\* A raw place as the data model types it: every optional field missing or of
\* its type.
IsRawPlace(place) ==
    /\ \/ place.displayName.t = "absent"
       \/ place.displayName.t = "obj" /\ place.displayName.text.t \in {"absent", "str"}
    /\ place.formattedAddress.t \in {"absent", "str"}
    /\ place.priceLevel.t \in {"absent", "str"}
    /\ place.websiteUri.t \in {"absent", "str"}

\* C5: the row of a raw place has all five fields, each a string; a missing
\* display name gives Unknown, a missing address N/A, a missing price level
\* N/A.
C5_AllFieldsStrings ==
    (pc = "normalized" /\ IsRawPlace(result.places[1])) =>
        /\ display.what = "results"
        /\ Len(processed_places) = 1
        /\ LET place == result.places[1]
               row == processed_places[1]
           IN  /\ DOMAIN row = {"Name", "Address", "Price_Level", "Has_Website", "Website"}
               /\ row.Name.t = "str" /\ row.Address.t = "str"
               /\ row.Price_Level.t = "str" /\ row.Website.t = "str"
               /\ row.Has_Website \in {"Yes", "No"}
               /\ (place.displayName.t = "absent" \/ place.displayName.text.t = "absent")
                    => row.Name = StrV("Unknown")
               /\ place.formattedAddress.t = "absent" => row.Address = StrV("N/A")
               /\ place.priceLevel.t = "absent" => row.Price_Level = StrV("N/A")

\* C5 witness: a place with no field at all, normalised.
C5_Witness ==
    /\ pc = "normalized"
    /\ result.places[1] = [displayName |-> NameAbsent, formattedAddress |-> AbsentV,
                           priceLevel |-> AbsentV, websiteUri |-> AbsentV]
    /\ Len(processed_places) = 1

\* C6 as stated: whatever the shape of the optional fields, process_places
\* completes and yields a row.
C6_NeverRaises ==
    pc = "normalized" =>
        /\ display.level # "exception"
        /\ Len(processed_places) = 1

====
